---- MODULE Spec2Model ----
(***************************************************************************)
(* Model of the schedule builder of streamlit_app.py (lines 133-276): the  *)
(* loop that spreads the labour hours of the tasks over the daily working  *)
(* window, and the presentation branch that follows it.                    *)
(*                                                                         *)
(* Time is scaled.  A datetime is a number of ticks, the tick being the    *)
(* resolution of datetime (one microsecond in Python); a second is         *)
(* SubPerSec ticks and a calendar day is DaySecs seconds.  Labour is       *)
(* counted in crew-ticks (one worker during one tick), so that             *)
(* "hours / total_team" is a duration in ticks and need not be a whole     *)
(* number of ticks.  Labour arithmetic is exact; the two conversions of    *)
(* the code that lose information are modelled as the code performs them:  *)
(* timedelta.seconds drops the sub-second part, and timedelta(hours=x)     *)
(* rounds to the nearest tick (ties to even).                              *)
(***************************************************************************)
EXTENDS Integers, Sequences, FiniteSets, TLC

\* ---------------------------------------------------------------- bounds
NTasks == 3        \* number of entries of the hours mapping `man`
MaxHours == 5      \* largest labour demand of one task, in crew-ticks
MaxTeam == 3       \* largest total_team
SubPerSec == 2     \* ticks per second
DaySecs == 3       \* seconds per calendar day

DayLen == DaySecs * SubPerSec
Tasks == 1..NTasks
\* the date arithmetic of the run is cut off here; a run with a proper window
\* needs at most one rollover per filled second plus one per task
MaxDay == (NTasks * MaxHours) \div SubPerSec + NTasks + 1

VARIABLES
    window_start,   \* sidebar: daily begin, a whole second of the day
    window_end,     \* sidebar: daily end, a whole second of the day
    total_team,     \* team1 + team2 + team3
    man,            \* task -> labour demand
    schedule,       \* list of [Task, Start, Finish]
    current_dt,     \* the cursor
    alert_shown,
    taskIdx,        \* position of the for loop in man.items()
    remaining,
    pc,             \* "for" | "while" | "after_while" | "present" | "done"
    st_errors,      \* number of st.error capacity messages shown
    shown           \* what the page shows below the sidebar

vars == <<window_start, window_end, total_team, man, schedule, current_dt,
          alert_shown, taskIdx, remaining, pc, st_errors, shown>>
inputs == <<window_start, window_end, total_team, man>>

\* ------------------------------------------------------- datetime helpers
Min(a, b) == IF a <= b THEN a ELSE b

\* datetime.date()
DateOf(dt) == dt \div DayLen

\* datetime.combine(d, t) for a time of day t given in whole seconds
combine(d, t) == d * DayLen + t * SubPerSec

\* timedelta.seconds: the whole seconds of the part below one day
seconds(td) == (td % DayLen) \div SubPerSec

\* a conversion that drops the fraction of a tick instead of rounding
timedelta_hours_Truncating(n, d) == n \div d

\* timedelta(hours = n / d): the duration n/d rounded to the nearest tick,
\* ties to the even tick
timedelta_hours(n, d) ==
    LET q == n \div d
        r == n % d
    IN  IF 2 * r < d THEN q
        ELSE IF 2 * r > d THEN q + 1
        ELSE IF q % 2 = 0 THEN q ELSE q + 1

\* ----------------------------------------------- the body of the while loop
day_start(dt) == combine(DateOf(dt), window_start)
day_end(dt) == combine(DateOf(dt), window_end)

\* line 143-144: a cursor before the daily begin is moved to it
snapped(dt) == IF dt < day_start(dt) THEN day_start(dt) ELSE dt

\* a rollover that forgets to advance the date
NextDayStart_SameDay(dt) == combine(DateOf(dt), window_start)

\* a rollover that advances the date twice
NextDayStart_SkipsDay(dt) == combine(DateOf(dt) + 2, window_start)

\* line 146: the daily begin of the next calendar date
NextDayStart(dt) == combine(DateOf(dt) + 1, window_start)

\* line 149, in ticks: the whole seconds left until the daily end
avail_wall(dt) == seconds(day_end(dt) - dt) * SubPerSec

\* line 150
possible_man(dt) == avail_wall(dt) * total_team

\* an allocation that is not capped by what the day can still deliver
alloc_NoCap(rem, dt) == rem

\* line 158
alloc(rem, dt) == Min(rem, possible_man(dt))

\* line 159-161
seg_end(rem, dt) == dt + timedelta_hours(alloc(rem, dt), total_team)

\* --------------------------------------------------------------- the run
\* The sidebar values are drawn from the inputs the schedule builder is
\* specified for: a daily begin before the daily end, both on whole seconds
\* of one day, a crew of any size including none, hours >= 0.
Init ==
    /\ window_start \in 0..(DaySecs - 1)
    /\ window_end \in 0..(DaySecs - 1)
    /\ window_start < window_end
    /\ total_team \in 0..MaxTeam
    /\ man \in [Tasks -> 0..MaxHours]
    /\ schedule = <<>>
    /\ current_dt = combine(0, window_start)
    /\ alert_shown = FALSE
    /\ taskIdx = 1
    /\ remaining = 0
    /\ pc = "for"
    /\ st_errors = 0
    /\ shown = "nothing"

\* line 138-139: the for loop takes the next task, or ends
ForNext ==
    /\ pc = "for"
    /\ IF taskIdx <= NTasks
       THEN /\ remaining' = man[taskIdx]
            /\ pc' = "while"
       ELSE /\ remaining' = remaining
            /\ pc' = "present"
    /\ UNCHANGED <<inputs, schedule, current_dt, alert_shown, taskIdx,
                   st_errors, shown>>

\* line 140: the while condition is false
WhileExit ==
    /\ pc = "while"
    /\ remaining <= 0
    /\ pc' = "after_while"
    /\ UNCHANGED <<inputs, schedule, current_dt, alert_shown, taskIdx,
                   remaining, st_errors, shown>>

\* line 141-147: the cursor is at or past the daily end
Rollover ==
    /\ pc = "while"
    /\ remaining > 0
    /\ snapped(current_dt) >= day_end(current_dt)
    /\ DateOf(current_dt) < MaxDay
    /\ current_dt' = NextDayStart(snapped(current_dt))
    /\ UNCHANGED <<inputs, schedule, alert_shown, taskIdx, remaining, pc,
                   st_errors, shown>>

\* an infeasibility branch that forgets to set the flag
Infeasible_NoFlag ==
    /\ pc = "while"
    /\ remaining > 0
    /\ snapped(current_dt) < day_end(current_dt)
    /\ possible_man(snapped(current_dt)) <= 0
    /\ current_dt' = snapped(current_dt)
    /\ st_errors' = IF alert_shown THEN st_errors ELSE st_errors + 1
    /\ schedule' = <<>>
    /\ pc' = "after_while"
    /\ UNCHANGED <<inputs, alert_shown, taskIdx, remaining, shown>>

\* an infeasibility branch that keeps the segments emitted so far
Infeasible_NoDiscard ==
    /\ pc = "while"
    /\ remaining > 0
    /\ snapped(current_dt) < day_end(current_dt)
    /\ possible_man(snapped(current_dt)) <= 0
    /\ current_dt' = snapped(current_dt)
    /\ st_errors' = IF alert_shown THEN st_errors ELSE st_errors + 1
    /\ alert_shown' = TRUE
    /\ pc' = "after_while"
    /\ UNCHANGED <<inputs, schedule, taskIdx, remaining, shown>>

\* line 149-156: nothing can be delivered before the daily end
Infeasible ==
    /\ pc = "while"
    /\ remaining > 0
    /\ snapped(current_dt) < day_end(current_dt)
    /\ possible_man(snapped(current_dt)) <= 0
    /\ current_dt' = snapped(current_dt)
    /\ st_errors' = IF alert_shown THEN st_errors ELSE st_errors + 1
    /\ alert_shown' = TRUE
    /\ schedule' = <<>>
    /\ pc' = "after_while"
    /\ UNCHANGED <<inputs, taskIdx, remaining, shown>>

\* an allocation step that forgets to decrement remaining
Allocate_NoDecrement ==
    /\ pc = "while"
    /\ remaining > 0
    /\ snapped(current_dt) < day_end(current_dt)
    /\ possible_man(snapped(current_dt)) > 0
    /\ LET now == snapped(current_dt)
       IN  /\ schedule' = Append(schedule,
                  [Task |-> taskIdx, Start |-> now,
                   Finish |-> seg_end(remaining, now)])
           /\ current_dt' = seg_end(remaining, now)
    /\ UNCHANGED <<inputs, alert_shown, taskIdx, remaining, pc, st_errors,
                   shown>>

\* line 158-165: a segment is emitted
Allocate ==
    /\ pc = "while"
    /\ remaining > 0
    /\ snapped(current_dt) < day_end(current_dt)
    /\ possible_man(snapped(current_dt)) > 0
    /\ LET now == snapped(current_dt)
       IN  /\ schedule' = Append(schedule,
                  [Task |-> taskIdx, Start |-> now,
                   Finish |-> seg_end(remaining, now)])
           /\ remaining' = remaining - alloc(remaining, now)
           /\ current_dt' = seg_end(remaining, now)
    /\ UNCHANGED <<inputs, alert_shown, taskIdx, pc, st_errors, shown>>

\* line 166-167: leave the for loop after an alert, else go on
AfterWhile ==
    /\ pc = "after_while"
    /\ IF alert_shown
       THEN /\ pc' = "present"
            /\ taskIdx' = taskIdx
       ELSE /\ pc' = "for"
            /\ taskIdx' = taskIdx + 1
    /\ UNCHANGED <<inputs, schedule, current_dt, alert_shown, remaining,
                   st_errors, shown>>

\* line 170-276: the schedule is rendered, or the capacity message is shown
Present ==
    /\ pc = "present"
    /\ IF schedule # <<>>
       THEN /\ shown' = "schedule"
            /\ st_errors' = st_errors
       ELSE /\ shown' = "error"
            /\ st_errors' = st_errors + 1
    /\ pc' = "done"
    /\ UNCHANGED <<inputs, schedule, current_dt, alert_shown, taskIdx,
                   remaining>>

Next ==
    \/ ForNext
    \/ WhileExit
    \/ Rollover
    \/ Infeasible
    \/ Allocate
    \/ AfterWhile
    \/ Present

Spec == Init /\ [][Next]_vars

\* the script is one sequential run: a step that can be taken is taken
FairSpec == Spec /\ WF_vars(Next)

\* ------------------------------------------------------ notions of the claims
ValidWindow == window_start < window_end
LoopFinished == pc \in {"present", "done"}
Abs(x) == IF x < 0 THEN 0 - x ELSE x
Last(s) == s[Len(s)]
Appended == Len(schedule') = Len(schedule) + 1

\* labour delivered to task i by the segments of s
RECURSIVE Delivered(_, _)
Delivered(s, i) ==
    IF s = <<>> THEN 0
    ELSE (IF Head(s).Task = i
          THEN (Head(s).Finish - Head(s).Start) * total_team ELSE 0)
         + Delivered(Tail(s), i)

RECURSIVE SumHours(_)
SumHours(i) == IF i = 0 THEN 0 ELSE man[i] + SumHours(i - 1)

SegmentsOf(i) == {k \in 1..Len(schedule) : schedule[k].Task = i}

\* labour one full daily window delivers
DayLabour == (window_end - window_start) * SubPerSec * total_team

\* ------------------------------------------------------------------- C1
\* C1: with total_team > 0 and a proper window the infeasibility branch is
\* never taken, whatever the cursor (on a whole second or not).
C1_OnlyZeroCapacityIsInfeasible ==
    (total_team > 0 /\ ValidWindow) => ~alert_shown

\* ------------------------------------------------------------------- C2
\* C2: with total_team = 0 and some task with hours > 0 the loop ends with
\* alert_shown set and an empty schedule, wherever the positive task stands.
C2_ZeroCapacityInfeasible ==
    (LoopFinished /\ total_team = 0 /\ \E i \in Tasks : man[i] > 0)
        => (alert_shown /\ schedule = <<>>)

C2_Witness ==
    /\ pc = "done"
    /\ total_team = 0
    /\ man[1] = 0 /\ man[2] > 0 /\ man[3] > 0
    /\ alert_shown
    /\ schedule = <<>>

\* ------------------------------------------------------------------- C3
\* C3 as stated: in a feasible run the segments of every task deliver
\* exactly the task's hours.
C3_ConservationExact ==
    (LoopFinished /\ ~alert_shown)
        => \A i \in Tasks : Delivered(schedule, i) = man[i]

\* C3 amended: in a feasible run the segments of every task deliver the
\* task's hours up to the rounding of a duration to one tick (half a tick of
\* the whole crew), and the while loop is left with remaining = 0.
C3_ConservationWithinResolution ==
    /\ (LoopFinished /\ ~alert_shown)
          => \A i \in Tasks :
                2 * Abs(Delivered(schedule, i) - man[i]) <= total_team
    /\ (pc = "after_while" /\ ~alert_shown) => remaining = 0

C3_Witness ==
    /\ pc = "done"
    /\ ~alert_shown
    /\ \E i \in Tasks :
          /\ Cardinality(SegmentsOf(i)) >= 2
          /\ Delivered(schedule, i) # man[i]

\* ------------------------------------------------------------------- C4
Contained(seg) ==
    /\ DateOf(seg.Start) = DateOf(seg.Finish)
    /\ day_start(seg.Start) <= seg.Start
    /\ seg.Finish <= day_end(seg.Start)

C5_Ordering ==
    \A k \in 1..(Len(schedule) - 1) :
        /\ schedule[k].Start <= schedule[k + 1].Start
        /\ schedule[k].Finish <= schedule[k + 1].Start

C5_Witness ==
    /\ Len(schedule) >= 3
    /\ \E k \in 1..(Len(schedule) - 1) :
          /\ schedule[k].Task = schedule[k + 1].Task
          /\ DateOf(schedule[k].Start) < DateOf(schedule[k + 1].Start)
    /\ \E k \in 1..(Len(schedule) - 1) :
          schedule[k].Task # schedule[k + 1].Task

\* ------------------------------------------------------------------- C6
\* C6: after a segment that ends at its day's close the next segment starts
\* at the daily begin of the next date; after any other segment the next one
\* starts at that segment's Finish.
C6_HandOver ==
    \A k \in 1..(Len(schedule) - 1) :
        IF schedule[k].Finish = day_end(schedule[k].Start)
        THEN schedule[k + 1].Start
                = combine(DateOf(schedule[k].Start) + 1, window_start)
        ELSE schedule[k + 1].Start = schedule[k].Finish

C6_Witness ==
    /\ \E k \in 1..(Len(schedule) - 1) :
          /\ schedule[k].Task # schedule[k + 1].Task
          /\ schedule[k].Finish = day_end(schedule[k].Start)
          /\ DateOf(schedule[k + 1].Start) = DateOf(schedule[k].Start) + 1
    /\ \E k \in 1..(Len(schedule) - 1) :
          /\ schedule[k].Task # schedule[k + 1].Task
          /\ schedule[k].Start < schedule[k].Finish
          /\ schedule[k].Finish < day_end(schedule[k].Start)
          /\ schedule[k + 1].Start = schedule[k].Finish

\* ------------------------------------------------------------------- C7
\* C7: every segment delivers min(remaining, (day_end - now) * total_team)
\* with the exact time left to the daily close, so a segment that leaves its
\* task unfinished ends at day_end.
C7_GreedyFill ==
    [][Appended =>
        /\ remaining - remaining'
              = Min(remaining,
                    (day_end(current_dt) - snapped(current_dt)) * total_team)
        /\ (remaining' > 0
              => Last(schedule').Finish = day_end(current_dt))]_vars

\* ------------------------------------------------------------------- C8
\* C8: with a proper window the loop finishes, with every task done or the
\* infeasibility flag set, and the rollovers number at most the total hours
\* over the labour of one full day plus one per task.
C8_Termination ==
    /\ [](ValidWindow => <>LoopFinished)
    /\ [](ValidWindow =>
            /\ LoopFinished => (alert_shown \/ taskIdx = NTasks + 1)
            /\ DateOf(current_dt) * DayLabour
                  <= SumHours(NTasks) + NTasks * DayLabour)

C8_Witness ==
    /\ pc = "done"
    /\ ValidWindow
    /\ ~alert_shown
    /\ DateOf(current_dt) >= 3

\* ------------------------------------------------------------------- C9
\* C9: once the infeasibility branch is taken the schedule is empty and
\* stays empty, and the for loop does not move to another task.
C9_AllOrNothing ==
    /\ [](alert_shown =>
            (schedule = <<>> /\ pc \in {"after_while", "present", "done"}))
    /\ [][alert_shown => (schedule' = <<>> /\ taskIdx' = taskIdx)]_vars

C9_Witness ==
    /\ pc = "done"
    /\ alert_shown
    /\ taskIdx = 2
    /\ man[1] > 0
    /\ man[3] > 0
    /\ DateOf(current_dt) >= 1
    /\ schedule = <<>>

\* ------------------------------------------------------------------ C10
\* C10: the capacity message is shown only if the infeasibility branch was
\* taken, also when every task has hours = 0.
C10_ErrorOnlyIfInfeasible ==
    st_errors > 0 => alert_shown

====
